---- MODULE Spec2Model ----
(***************************************************************************)
(* CpuInfo (be/src/util/cpu_info.cpp): one-shot discovery of the core      *)
(* count, the offline cores, the cgroup limits, the NUMA layout and the    *)
(* hardware flags of the machine a process runs on.                        *)
(*                                                                         *)
(* Text is a sequence of one-character strings, so that parsing is done    *)
(* character by character as the code does it.  The machine (the files     *)
(* under /proc and /sys, the gflag, the build) is the variable env, fixed  *)
(* for a behaviour.  init() is a sequence of steps per calling thread, one *)
(* step per stage of the pipeline.  Not modelled, no claim reads them:     *)
(* model_name_, cycles_per_ms_ and the cache tables.                       *)
(***************************************************************************)
EXTENDS Integers, Sequences, FiniteSets, TLC

VARIABLES
    env,                        \* the machine: files, gflag, build
    pc,                         \* per thread: where it is inside init()
    initialized_,
    hardware_flags_,            \* the bitmask, as the set of its bits
    num_cores_,
    max_num_cores_,
    is_cgroup_with_cpuset_,
    is_cgroup_with_cpu_quota_,
    max_num_numa_nodes_,
    core_to_numa_node_,         \* sequence, core c at index c + 1
    numa_node_to_cores_,        \* sequence of sequences, node n at index n + 1
    numa_node_core_idx_,
    cpuset_cores_,
    offline_cores_,
    cg,                         \* locals of the last _init_num_cores_with_cgroup
    dcheck,                     \* DCHECK of _init_numa_node_to_cores
    ret                         \* the last value an accessor returned

vars == <<env, pc, initialized_, hardware_flags_, num_cores_, max_num_cores_,
          is_cgroup_with_cpuset_, is_cgroup_with_cpu_quota_, max_num_numa_nodes_,
          core_to_numa_node_, numa_node_to_cores_, numa_node_core_idx_,
          cpuset_cores_, offline_cores_, cg, dcheck, ret>>

\* ------------------------------------------------------------------ text

Range(s) == {s[i] : i \in 1..Len(s)}

Max2(a, b) == IF a >= b THEN a ELSE b

Min2(a, b) == IF a <= b THEN a ELSE b

\* std::isspace on the characters the inputs use
IsSpace(c) == c \in {" ", "\t", "\n"}

AllSpace(s) == \A i \in 1..Len(s) : IsSpace(s[i])

IsDigit(c) == c \in {"0", "1", "2", "3", "4", "5", "6", "7", "8", "9"}

DigitVal(c) ==
    CASE c = "0" -> 0 [] c = "1" -> 1 [] c = "2" -> 2 [] c = "3" -> 3
      [] c = "4" -> 4 [] c = "5" -> 5 [] c = "6" -> 6 [] c = "7" -> 7
      [] c = "8" -> 8 [] c = "9" -> 9

RECURSIVE DigitsVal(_)
DigitsVal(s) ==
    IF s = <<>> THEN 0
    ELSE 10 * DigitsVal(SubSeq(s, 1, Len(s) - 1)) + DigitVal(s[Len(s)])

RECURSIVE TrimLeft(_)
TrimLeft(s) ==
    IF s # <<>> /\ IsSpace(s[1]) THEN TrimLeft(Tail(s)) ELSE s

RECURSIVE TrimRight(_)
TrimRight(s) ==
    IF s # <<>> /\ IsSpace(s[Len(s)]) THEN TrimRight(SubSeq(s, 1, Len(s) - 1)) ELSE s

\* StringParser::string_to_int<T>: surrounding whitespace is dropped, one sign
\* is accepted, then one or more digits and nothing else.  The texts of this
\* model have at most nine digits, so no value overflows int32_t or int64_t.
string_to_int(s) ==
    LET t == TrimRight(TrimLeft(s))
        signed == t # <<>> /\ t[1] \in {"-", "+"}
        digits == IF signed THEN Tail(t) ELSE t
        good == digits # <<>> /\ \A i \in 1..Len(digits) : IsDigit(digits[i])
    IN  IF ~good THEN [ok |-> FALSE, val |-> 0]
        ELSE [ok |-> TRUE,
              val |-> IF signed /\ t[1] = "-" THEN 0 - DigitsVal(digits)
                      ELSE DigitsVal(digits)]

FirstIndex(s, d) == CHOOSE i \in 1..Len(s) : s[i] = d /\ \A j \in 1..(i - 1) : s[j] # d

RECURSIVE SplitAll(_, _)
SplitAll(s, d) ==
    IF d \notin Range(s) THEN <<s>>
    ELSE LET i == FirstIndex(s, d)
         IN  <<SubSeq(s, 1, i - 1)>> \o SplitAll(SubSeq(s, i + 1, Len(s)), d)

\* strings::Split(text, delimiter, strings::SkipWhitespace()): the pieces
\* between the delimiters, without the pieces that are empty or all whitespace
Split(s, d) == SelectSeq(SplitAll(s, d), LAMBDA p : ~AllSpace(p))

\* boost::algorithm::contains
contains(hay, needle) ==
    \E i \in 1..(Len(hay) - Len(needle) + 1) :
        SubSeq(hay, i, i + Len(needle) - 1) = needle

RECURSIVE Flatten(_)
Flatten(ss) == IF ss = <<>> THEN <<>> ELSE Head(ss) \o Flatten(Tail(ss))

\* --------------------------------------------------------- parse_cpus

\* the body of the loop of parse_cpus: what one field adds to cpuids
ParseField(field) ==
    IF "-" \notin Range(field)
    THEN LET r == string_to_int(field)
         IN  IF r.ok THEN <<r.val>> ELSE <<>>
    ELSE LET pair == Split(field, "-")
         IN  IF Len(pair) # 2 THEN <<>>
             ELSE LET start == string_to_int(pair[1])
                      end == string_to_int(pair[2])
                  IN  IF ~start.ok \/ ~end.ok THEN <<>>
                      ELSE [i \in 1..(end.val - start.val + 1) |-> start.val + i - 1]

parse_cpus(cpus_str) ==
    LET fields == Split(cpus_str, ",")
    IN  Flatten([i \in 1..Len(fields) |-> ParseField(fields[i])])

\* ----------------------------------------------------- hardware flags

flag_mappings ==
    << [name |-> <<"s", "s", "s", "e", "3">>, flag |-> "SSSE3"],
       [name |-> <<"s", "s", "e", "4", "_", "1">>, flag |-> "SSE4_1"],
       [name |-> <<"s", "s", "e", "4", "_", "2">>, flag |-> "SSE4_2"],
       [name |-> <<"p", "o", "p", "c", "n", "t">>, flag |-> "POPCNT"],
       [name |-> <<"a", "v", "x">>, flag |-> "AVX"],
       [name |-> <<"a", "v", "x", "2">>, flag |-> "AVX2"],
       [name |-> <<"a", "v", "x", "5", "1", "2", "f">>, flag |-> "AVX512F"],
       [name |-> <<"a", "v", "x", "5", "1", "2", "b", "w">>, flag |-> "AVX512BW"] >>

\* the bitmap of the flags found in one "flags" value
ParseCPUFlags(values) ==
    {flag_mappings[i].flag : i \in {j \in 1..Len(flag_mappings) :
                                        contains(values, flag_mappings[j].name)}}

is_supported(flag) == flag \in hardware_flags_

\* hardware_flags_ assigned, not or-ed: the flags of the last record alone
ScanFlagsLastRecord(cpuinfo, flags) ==
    IF cpuinfo = <<>> THEN flags ELSE ParseCPUFlags(cpuinfo[Len(cpuinfo)])

\* the loop over /proc/cpuinfo: the union of the flags of every record
ScanFlags(cpuinfo, flags) ==
    flags \cup UNION {ParseCPUFlags(cpuinfo[i]) : i \in 1..Len(cpuinfo)}

\* the "processor" lines counted, kept when there is at least one
ScanNumCores(cpuinfo, cur) == IF Len(cpuinfo) > 0 THEN Len(cpuinfo) ELSE cur

\* ------------------------------------------------------------- cgroup

NoFile == [ok |-> FALSE, text |-> <<>>]

File(text) == [ok |-> TRUE, text |-> text]

\* the reads of _init_num_cores_with_cgroup: reached says whether control
\* gets past them; the strings are the locals as the reads left them.
\* cgroup v2 keeps quota and period in the one file cpu.max, which
\* FileUtil::read_contents splits in two: it is there when both fields are.
CgroupRead(w) ==
    LET none == [reached |-> FALSE, period_str |-> <<>>, quota_str |-> <<>>,
                 cpuset_str |-> <<>>]
    IN  CASE w.statfs = "fail" -> none
          [] w.statfs = "tmpfs" ->
                IF ~w.period.ok THEN none
                ELSE IF ~w.quota.ok THEN [none EXCEPT !.period_str = w.period.text]
                ELSE IF ~w.cpuset.ok
                     THEN [none EXCEPT !.period_str = w.period.text,
                                       !.quota_str = w.quota.text]
                ELSE [reached |-> TRUE, period_str |-> w.period.text,
                      quota_str |-> w.quota.text, cpuset_str |-> w.cpuset.text]
          [] w.statfs = "cgroup2" ->
                IF ~(w.quota.ok /\ w.period.ok) THEN none
                ELSE IF ~w.cpuset.ok
                     THEN [none EXCEPT !.period_str = w.period.text,
                                       !.quota_str = w.quota.text]
                ELSE [reached |-> TRUE, period_str |-> w.period.text,
                      quota_str |-> w.quota.text, cpuset_str |-> w.cpuset.text]
          [] OTHER -> [none EXCEPT !.reached = TRUE]

\* the quota block: the count the quota gives, and whether the quota is on.
\* The quotient is narrowed to int32_t; quota and period have at most nine
\* digits here, as the kernel's limits on them imply, so it fits.
CfsNumCores(period_str, quota_str, num_cores) ==
    LET p == string_to_int(period_str)
        q == string_to_int(quota_str)
        cfs_period_us == IF p.ok THEN p.val ELSE 0 - 1
        cfs_quota_us == IF q.ok THEN q.val ELSE 0 - 1
    IN  IF cfs_quota_us > 0 /\ cfs_period_us > 0
        THEN [n |-> cfs_quota_us \div cfs_period_us, on |-> TRUE]
        ELSE [n |-> num_cores, on |-> FALSE]

\* !cpuset_str.empty() && any_of(... !isspace ...)
HasNonSpace(s) == s # <<>> /\ \E i \in 1..Len(s) : ~IsSpace(s[i])

\* parse_cpus, then std::erase_if of the offline cores
CpusetCores(cpuset_str, offline) ==
    SelectSeq(parse_cpus(cpuset_str), LAMBDA core : core \notin offline)

\* the last block: the count is replaced only when a source lowers it
FinalNumCores(cfs_num_cores, cpuset_num_cores, cur) ==
    IF cfs_num_cores < cur \/ cpuset_num_cores < cur
    THEN Max2(1, Min2(cfs_num_cores, cpuset_num_cores))
    ELSE cur

\* the stage run without the test of the container marker
CgroupStageUnconfined(w, cur) ==
    LET rd == CgroupRead(w)
        cfs == CfsNumCores(rd.period_str, rd.quota_str, cur.num_cores)
        set == HasNonSpace(rd.cpuset_str)
        cores == CpusetCores(rd.cpuset_str, cur.offline)
        cps == IF set THEN Len(cores) ELSE cur.num_cores
    IN  IF ~rd.reached
        THEN [num_cores |-> cur.num_cores, cpuset_cores |-> cur.cpuset_cores,
              with_cpuset |-> cur.with_cpuset, with_quota |-> cur.with_quota]
        ELSE [num_cores |-> FinalNumCores(cfs.n, cps, cur.num_cores),
              cpuset_cores |-> IF set THEN cores ELSE cur.cpuset_cores,
              with_cpuset |-> set \/ cur.with_cpuset,
              with_quota |-> cfs.on \/ cur.with_quota]

\* the fields _init_num_cores_with_cgroup leaves, from the ones it finds
CgroupStage(w, cur) ==
    LET rd == CgroupRead(w)
        cfs == CfsNumCores(rd.period_str, rd.quota_str, cur.num_cores)
        set == HasNonSpace(rd.cpuset_str)
        cores == CpusetCores(rd.cpuset_str, cur.offline)
        cps == IF set THEN Len(cores) ELSE cur.num_cores
    IN  IF ~w.dockerenv \/ ~rd.reached
        THEN [num_cores |-> cur.num_cores, cpuset_cores |-> cur.cpuset_cores,
              with_cpuset |-> cur.with_cpuset, with_quota |-> cur.with_quota]
        ELSE [num_cores |-> FinalNumCores(cfs.n, cps, cur.num_cores),
              cpuset_cores |-> IF set THEN cores ELSE cur.cpuset_cores,
              with_cpuset |-> set \/ cur.with_cpuset,
              with_quota |-> cfs.on \/ cur.with_quota]

\* the gflag taken whenever it is set, not only when it is positive
CoreCountOverrideNonZero(num_cores, flag) ==
    LET floored == IF num_cores <= 0 THEN 1 ELSE num_cores
    IN  IF flag # 0 THEN flag ELSE floored

\* lines 170-173 of init(): the floor, then the gflag
CoreCountAfterOverride(num_cores, flag) ==
    LET floored == IF num_cores <= 0 THEN 1 ELSE num_cores
    IN  IF flag > 0 THEN flag ELSE floored

\* --------------------------------------------------------------- NUMA

\* the node<N> entries counted, one node when there is no directory or none
MaxNumNumaNodes(numa) ==
    IF ~numa.dir THEN 1
    ELSE IF Cardinality(numa.nodes) = 0 THEN 1 ELSE Cardinality(numa.nodes)

\* core c (at index c + 1): the first node in 0..max_nodes-1 whose symlink
\* cpu<c>/node<n> exists, node 0 when none does or there is no directory
CoreToNumaNode(numa, max_cores) ==
    LET max_nodes == MaxNumNumaNodes(numa)
    IN  [i \in 1..max_cores |->
            IF numa.dir /\ numa.cpu_node[i - 1] \in 0..(max_nodes - 1)
            THEN numa.cpu_node[i - 1] ELSE 0]

RECURSIVE AppendCores(_, _, _, _)
AppendCores(acc, c2n, core, max_cores) ==
    IF core >= max_cores THEN acc
    ELSE LET node == c2n[core + 1] + 1
         IN  AppendCores([lists |-> [acc.lists EXCEPT ![node] = Append(@, core)],
                          idx |-> [acc.idx EXCEPT ![core + 1] = Len(acc.lists[node])]],
                         c2n, core + 1, max_cores)

\* the loop over the cores started at core 1
NumaNodeToCoresFromOne(old_lists, old_idx, max_nodes, max_cores, c2n) ==
    AppendCores([lists |-> [n \in 1..max_nodes |->
                               IF n <= Len(old_lists) THEN old_lists[n] ELSE <<>>],
                 idx |-> [i \in 1..max_cores |->
                               IF i <= Len(old_idx) THEN old_idx[i] ELSE 0]],
                c2n, 1, max_cores)

\* _init_numa_node_to_cores: both vectors resized, then every core pushed
NumaNodeToCores(old_lists, old_idx, max_nodes, max_cores, c2n) ==
    AppendCores([lists |-> [n \in 1..max_nodes |->
                               IF n <= Len(old_lists) THEN old_lists[n] ELSE <<>>],
                 idx |-> [i \in 1..max_cores |->
                               IF i <= Len(old_idx) THEN old_idx[i] ELSE 0]],
                c2n, 0, max_cores)

\* ---------------------------------------------------------- accessors

\* the list returned without the last erase_if
get_core_ids_unfiltered(cpuset_cores, node_lists, offline) ==
    IF cpuset_cores # <<>> THEN cpuset_cores ELSE Flatten(node_lists)

get_core_ids(cpuset_cores, node_lists, offline) ==
    SelectSeq(IF cpuset_cores # <<>> THEN cpuset_cores ELSE Flatten(node_lists),
              LAMBDA core : core \notin offline)

\* the id returned as the OS gave it when it is past the known cores
get_current_core_unwrapped(have, cpu, max_cores) ==
    IF ~have THEN 0
    ELSE IF cpu < 0 THEN 0
    ELSE cpu

\* cpu is what sched_getcpu() returned; have is HAVE_SCHED_GETCPU
get_current_core(have, cpu, max_cores) ==
    IF ~have THEN 0
    ELSE IF cpu < 0 THEN 0
    ELSE IF cpu >= max_cores THEN cpu % max_cores
    ELSE cpu

\* ---------------------------------------------------------- machines

MaxRecords == 3

MaxCores == 3

\* "flags" values of /proc/cpuinfo records
FlagsPlain == <<"f", "p", "u", " ", "s", "s", "e", "4", "_", "2", " ", "p", "o", "p", "c", "n", "t">>

FlagsAvx2 == <<"f", "p", "u", " ", "a", "v", "x", "2">>

FlagsAvx512 == <<"s", "s", "s", "e", "3", " ", "a", "v", "x", " ", "a", "v", "x", "5", "1", "2", "f">>

FlagLines == {<<>>, FlagsPlain, FlagsAvx2, FlagsAvx512}

\* /sys/devices/system/cpu/offline: absent, "1\n", "0-4"
OfflineFiles ==
    {NoFile, File(<<"1", "\n">>), File(<<"0", "-", "4">>)}

\* cpu.cfs_period_us, or the second field of cpu.max: absent, "100000\n", "0"
PeriodFiles ==
    {NoFile, File(<<"1", "0", "0", "0", "0", "0", "\n">>), File(<<"0">>)}

\* cpu.cfs_quota_us, or the first field of cpu.max:
\* absent, "250000\n", "50000", "-1", "max"
QuotaFiles ==
    {NoFile, File(<<"2", "5", "0", "0", "0", "0", "\n">>),
     File(<<"5", "0", "0", "0", "0">>), File(<<"-", "1">>), File(<<"m", "a", "x">>)}

\* cpuset.cpus: absent, " \n", "0-1,4\n", "1", "foo"
CpusetFiles ==
    {NoFile, File(<<" ", "\n">>), File(<<"0", "-", "1", ",", "4", "\n">>),
     File(<<"1">>), File(<<"f", "o", "o">>)}

\* the result of statfs("/sys/fs/cgroup") and its f_type
StatfsResults == {"fail", "tmpfs", "cgroup2", "other"}

\* config::num_cores
NumCoresFlags == {0 - 1, 0, 2}

NoNumaDir(n) == [dir |-> FALSE, nodes |-> {}, cpu_node |-> [c \in 0..(n - 1) |-> 0 - 1]]

\* /sys/devices/system/node and the cpu<c>/node<n> symlinks of n cores:
\* cpu_node[c] is the node core c links to, -1 when it links to none
NumaLayouts(n) ==
    {NoNumaDir(n)} \cup
    {[dir |-> TRUE, nodes |-> ns, cpu_node |-> f] :
        ns \in {{}, {0, 1}, {0, 2}}, f \in [0..(n - 1) -> {0 - 1, 0, 1, 2}]}

Records(n, line) == [i \in 1..n |-> line]

\* a bare machine: one record, nothing offline, no container, one node
BareMachine ==
    [cpuinfo |-> Records(1, FlagsPlain), offline |-> NoFile, num_cores_flag |-> 0,
     dockerenv |-> FALSE, statfs |-> "fail", period |-> NoFile, quota |-> NoFile,
     cpuset |-> NoFile, nprocs_conf |-> 1, numa |-> NoNumaDir(1),
     have_sched_getcpu |-> TRUE, ndebug |-> TRUE]

\* Three families of machines, each varying the inputs of one part of the
\* pipeline and holding the others at one value.
\* machines that differ in what decides the core count
ContainerMachines ==
    {[BareMachine EXCEPT !.cpuinfo = Records(n, FlagsPlain), !.offline = off,
                         !.num_cores_flag = flag, !.dockerenv = docker,
                         !.statfs = fs, !.period = period, !.quota = quota,
                         !.cpuset = cpuset, !.nprocs_conf = MaxCores,
                         !.numa = NoNumaDir(MaxCores)] :
        n \in 0..MaxRecords, off \in OfflineFiles, flag \in NumCoresFlags,
        docker \in BOOLEAN, fs \in StatfsResults, period \in PeriodFiles,
        quota \in QuotaFiles, cpuset \in CpusetFiles}

\* machines that differ in their NUMA layout
NumaMachines ==
    UNION {{[BareMachine EXCEPT !.cpuinfo = Records(n, FlagsPlain), !.offline = off,
                                !.nprocs_conf = n, !.numa = numa,
                                !.have_sched_getcpu = have] :
               off \in OfflineFiles \cup {File(<<"\n">>)},
               numa \in NumaLayouts(n), have \in BOOLEAN} : n \in 1..MaxCores}

\* machines that differ in the flags their processors report
FlagMachines ==
    UNION {{[BareMachine EXCEPT !.cpuinfo = recs, !.nprocs_conf = Max2(1, n),
                                !.numa = NoNumaDir(Max2(1, n))] :
               recs \in [1..n -> FlagLines]} : n \in 0..MaxRecords}

Machines == ContainerMachines \cup NumaMachines \cup FlagMachines

\* machines on which two threads call init()
RaceMachines ==
    {[BareMachine EXCEPT !.cpuinfo = Records(2, FlagsAvx2), !.nprocs_conf = 2,
                         !.numa = numa, !.ndebug = ndebug] :
        numa \in NumaLayouts(2), ndebug \in BOOLEAN}

\* ------------------------------------------------------------- states

NoLocals ==
    [raw |-> 0, reached |-> FALSE, period_str |-> <<>>, quota_str |-> <<>>,
     cpuset_str |-> <<>>]

NoRet == [op |-> "none", str |-> <<>>, cpu |-> 0, max |-> 0, ids |-> <<>>, core |-> 0]

\* the statics as the definitions at the top of the file leave them
Statics ==
    /\ initialized_ = FALSE
    /\ hardware_flags_ = {}
    /\ num_cores_ = 1
    /\ max_num_cores_ = 1
    /\ is_cgroup_with_cpuset_ = FALSE
    /\ is_cgroup_with_cpu_quota_ = FALSE
    /\ max_num_numa_nodes_ = 0
    /\ core_to_numa_node_ = <<>>
    /\ numa_node_to_cores_ = <<>>
    /\ numa_node_core_idx_ = <<>>
    /\ cpuset_cores_ = <<>>
    /\ offline_cores_ = {}
    /\ cg = NoLocals
    /\ dcheck = "ok"

Init ==
    /\ env \in Machines
    /\ pc = [t \in {1} |-> "idle"]
    /\ Statics
    /\ ret = NoRet

InitRace ==
    /\ env \in RaceMachines
    /\ pc = [t \in {1, 2} |-> "idle"]
    /\ Statics
    /\ ret = NoRet

Running == dcheck # "aborted"

Goto(t, label) == pc' = [pc EXCEPT ![t] = label]

\* ------------------------------------------------------------- init()

\* if (initialized_) return;  A value an accessor returned earlier is of no
\* use once init() is entered again and is dropped.
InitEnter(t) ==
    /\ Running /\ pc[t] = "idle"
    /\ IF initialized_ THEN Goto(t, "idle") ELSE Goto(t, "scan")
    /\ ret' = NoRet
    /\ UNCHANGED <<env, initialized_, hardware_flags_, num_cores_, max_num_cores_,
                   is_cgroup_with_cpuset_, is_cgroup_with_cpu_quota_,
                   max_num_numa_nodes_, core_to_numa_node_, numa_node_to_cores_,
                   numa_node_core_idx_, cpuset_cores_, offline_cores_, cg, dcheck>>

\* the scan of /proc/cpuinfo, up to num_cores_ = num_cores
InitScan(t) ==
    /\ Running /\ pc[t] = "scan"
    /\ hardware_flags_' = ScanFlags(env.cpuinfo, hardware_flags_)
    /\ num_cores_' = ScanNumCores(env.cpuinfo, num_cores_)
    /\ Goto(t, "offline")
    /\ UNCHANGED <<env, initialized_, max_num_cores_, is_cgroup_with_cpuset_,
                   is_cgroup_with_cpu_quota_, max_num_numa_nodes_,
                   core_to_numa_node_, numa_node_to_cores_, numa_node_core_idx_,
                   cpuset_cores_, offline_cores_, cg, dcheck, ret>>

\* the set _init_offline_cores leaves
OfflineCores(file) == IF file.ok THEN Range(parse_cpus(file.text)) ELSE {}

InitOfflineCores(t) ==
    /\ Running /\ pc[t] = "offline"
    /\ offline_cores_' = OfflineCores(env.offline)
    /\ Goto(t, "cgroup")
    /\ UNCHANGED <<env, initialized_, hardware_flags_, num_cores_, max_num_cores_,
                   is_cgroup_with_cpuset_, is_cgroup_with_cpu_quota_,
                   max_num_numa_nodes_, core_to_numa_node_, numa_node_to_cores_,
                   numa_node_core_idx_, cpuset_cores_, cg, dcheck, ret>>

InitNumCoresWithCgroup(t) ==
    /\ Running /\ pc[t] = "cgroup"
    /\ LET out == CgroupStage(env, [num_cores |-> num_cores_, offline |-> offline_cores_,
                                    cpuset_cores |-> cpuset_cores_,
                                    with_cpuset |-> is_cgroup_with_cpuset_,
                                    with_quota |-> is_cgroup_with_cpu_quota_])
           rd == CgroupRead(env)
       IN  /\ num_cores_' = out.num_cores
           /\ cpuset_cores_' = out.cpuset_cores
           /\ is_cgroup_with_cpuset_' = out.with_cpuset
           /\ is_cgroup_with_cpu_quota_' = out.with_quota
           /\ cg' = IF env.dockerenv
                    THEN [raw |-> num_cores_, reached |-> rd.reached,
                          period_str |-> rd.period_str, quota_str |-> rd.quota_str,
                          cpuset_str |-> rd.cpuset_str]
                    ELSE [NoLocals EXCEPT !.raw = num_cores_]
    /\ Goto(t, "cores")
    /\ UNCHANGED <<env, initialized_, hardware_flags_, max_num_cores_,
                   max_num_numa_nodes_, core_to_numa_node_, numa_node_to_cores_,
                   numa_node_core_idx_, offline_cores_, dcheck, ret>>

\* the floor, the gflag, get_nprocs_conf()
InitCoreCount(t) ==
    /\ Running /\ pc[t] = "cores"
    /\ num_cores_' = CoreCountAfterOverride(num_cores_, env.num_cores_flag)
    /\ max_num_cores_' = env.nprocs_conf
    /\ Goto(t, "numa")
    /\ UNCHANGED <<env, initialized_, hardware_flags_, is_cgroup_with_cpuset_,
                   is_cgroup_with_cpu_quota_, max_num_numa_nodes_,
                   core_to_numa_node_, numa_node_to_cores_, numa_node_core_idx_,
                   cpuset_cores_, offline_cores_, cg, dcheck, ret>>

\* _init_numa with its call of _init_numa_node_to_cores.  The DCHECK stops a
\* debug build; a build with NDEBUG goes on with the vector as it is.
InitNuma(t) ==
    /\ Running /\ pc[t] = "numa"
    /\ IF numa_node_to_cores_ # <<>> /\ ~env.ndebug
       THEN /\ dcheck' = "aborted"
            /\ core_to_numa_node_' = CoreToNumaNode(env.numa, max_num_cores_)
            /\ max_num_numa_nodes_' = MaxNumNumaNodes(env.numa)
            /\ UNCHANGED <<pc, numa_node_to_cores_, numa_node_core_idx_>>
       ELSE LET c2n == CoreToNumaNode(env.numa, max_num_cores_)
                nodes == MaxNumNumaNodes(env.numa)
                out == NumaNodeToCores(numa_node_to_cores_, numa_node_core_idx_,
                                       nodes, max_num_cores_, c2n)
            IN  /\ dcheck' = IF numa_node_to_cores_ # <<>> THEN "violated" ELSE dcheck
                /\ core_to_numa_node_' = c2n
                /\ max_num_numa_nodes_' = nodes
                /\ numa_node_to_cores_' = out.lists
                /\ numa_node_core_idx_' = out.idx
                /\ Goto(t, "cache")
    /\ UNCHANGED <<env, initialized_, hardware_flags_, num_cores_, max_num_cores_,
                   is_cgroup_with_cpuset_, is_cgroup_with_cpu_quota_,
                   cpuset_cores_, offline_cores_, cg, ret>>

\* _init_cache_info(); initialized_ = true;
InitDone(t) ==
    /\ Running /\ pc[t] = "cache"
    /\ initialized_' = TRUE
    /\ Goto(t, "idle")
    /\ UNCHANGED <<env, hardware_flags_, num_cores_, max_num_cores_,
                   is_cgroup_with_cpuset_, is_cgroup_with_cpu_quota_,
                   max_num_numa_nodes_, core_to_numa_node_, numa_node_to_cores_,
                   numa_node_core_idx_, cpuset_cores_, offline_cores_, cg, dcheck, ret>>

\* ---------------------------------------------------- accessor calls

GetCoreIds(t) ==
    /\ Running /\ pc[t] = "idle"
    /\ ret' = [NoRet EXCEPT !.op = "get_core_ids",
                            !.ids = get_core_ids(cpuset_cores_, numa_node_to_cores_,
                                                 offline_cores_)]
    /\ UNCHANGED <<env, pc, initialized_, hardware_flags_, num_cores_, max_num_cores_,
                   is_cgroup_with_cpuset_, is_cgroup_with_cpu_quota_,
                   max_num_numa_nodes_, core_to_numa_node_, numa_node_to_cores_,
                   numa_node_core_idx_, cpuset_cores_, offline_cores_, cg, dcheck>>

\* what sched_getcpu() may return: -1, a known core, a core past the known ones
SchedCpus == (0 - 1)..(MaxCores + 1)

GetCurrentCore(t, cpu) ==
    /\ Running /\ pc[t] = "idle"
    /\ ret' = [NoRet EXCEPT !.op = "get_current_core", !.cpu = cpu,
                            !.max = max_num_cores_,
                            !.core = get_current_core(env.have_sched_getcpu, cpu,
                                                      max_num_cores_)]
    /\ UNCHANGED <<env, pc, initialized_, hardware_flags_, num_cores_, max_num_cores_,
                   is_cgroup_with_cpuset_, is_cgroup_with_cpu_quota_,
                   max_num_numa_nodes_, core_to_numa_node_, numa_node_to_cores_,
                   numa_node_core_idx_, cpuset_cores_, offline_cores_, cg, dcheck>>

Next ==
    \/ \E t \in DOMAIN pc : InitEnter(t)
    \/ \E t \in DOMAIN pc : InitScan(t)
    \/ \E t \in DOMAIN pc : InitOfflineCores(t)
    \/ \E t \in DOMAIN pc : InitNumCoresWithCgroup(t)
    \/ \E t \in DOMAIN pc : InitCoreCount(t)
    \/ \E t \in DOMAIN pc : InitNuma(t)
    \/ \E t \in DOMAIN pc : InitDone(t)
    \/ \E t \in DOMAIN pc : GetCoreIds(t)
    \/ \E t \in DOMAIN pc, cpu \in SchedCpus : GetCurrentCore(t, cpu)

Spec == Init /\ [][Next]_vars

SpecRace == InitRace /\ [][Next]_vars

\* ------------------------------------------------- calls of parse_cpus

MaxStrLen == 7

\* the characters of the texts handed to parse_cpus
ParseAlphabet == {"1", "3", "-", ",", "a"}

CpuStrings == UNION {[1..n -> ParseAlphabet] : n \in 0..MaxStrLen}

\* the caller has its argument ready in ret.str and the call returns into ret
CallParseCpus ==
    /\ ret.op = "call parse_cpus"
    /\ ret' = [ret EXCEPT !.op = "parse_cpus", !.ids = parse_cpus(ret.str)]
    /\ UNCHANGED <<env, pc, initialized_, hardware_flags_, num_cores_, max_num_cores_,
                   is_cgroup_with_cpuset_, is_cgroup_with_cpu_quota_,
                   max_num_numa_nodes_, core_to_numa_node_, numa_node_to_cores_,
                   numa_node_core_idx_, cpuset_cores_, offline_cores_, cg, dcheck>>

InitParse ==
    /\ env = BareMachine
    /\ pc = [t \in {1} |-> "idle"]
    /\ Statics
    /\ ret \in {[NoRet EXCEPT !.op = "call parse_cpus", !.str = s] : s \in CpuStrings}

NextParse == CallParseCpus

SpecParse == InitParse /\ [][NextParse]_vars

\* ------------------------------------------------------------ claims

\* init() has returned on some thread
Initialized == initialized_

\* C1: after init() the usable core count is at least 1, whatever the
\* processor table, the offline set, the cgroup files and the gflag are.
C1_UsableCoreCountAtLeastOne == Initialized => num_cores_ >= 1

\* a confined machine whose cpuset names only offline or malformed cores,
\* with a negative gflag
C1_Witness ==
    /\ Initialized /\ env.dockerenv /\ cg.reached
    /\ is_cgroup_with_cpuset_ /\ cpuset_cores_ = <<>>
    /\ env.num_cores_flag < 0 /\ Len(env.cpuinfo) = MaxRecords
    /\ num_cores_ = 1

\* C2: no offline core is in the list get_core_ids() returns, from the
\* cpuset or from the node lists; cpuset "0-1,4" with core 1 offline gives 0,4.
C2_NoOfflineCoreReturned ==
    ret.op = "get_core_ids" =>
        /\ \A i \in 1..Len(ret.ids) : ret.ids[i] \notin offline_cores_
        /\ (/\ Initialized /\ env.dockerenv /\ cg.reached
            /\ cg.cpuset_str = <<"0", "-", "1", ",", "4", "\n">>
            /\ offline_cores_ = {1}) => ret.ids = <<0, 4>>

C2_Witness ==
    /\ ret.op = "get_core_ids" /\ Initialized /\ env.dockerenv /\ cg.reached
    /\ cg.cpuset_str = <<"0", "-", "1", ",", "4", "\n">>
    /\ offline_cores_ = {1} /\ ret.ids = <<0, 4>>

\* how often core c is in the list of node n (n counted from 0)
Occurrences(c, n) ==
    Cardinality({i \in 1..Len(numa_node_to_cores_[n + 1]) :
                    numa_node_to_cores_[n + 1][i] = c})

\* C3: after init() the node lists are a partition of the cores 0..max-1 and
\* the inverse of core_to_numa_node_, whose values are nodes below
\* max_num_numa_nodes_; without a NUMA directory the one node holds every
\* core in order, without node entries there is one node, and a core no
\* node claims is on node 0.
C3_NodeListsPartitionCores ==
    Initialized =>
        /\ Len(core_to_numa_node_) = max_num_cores_
        /\ Len(numa_node_to_cores_) = max_num_numa_nodes_
        /\ \A c \in 0..(max_num_cores_ - 1) :
              /\ core_to_numa_node_[c + 1] \in 0..(max_num_numa_nodes_ - 1)
              /\ \A n \in 0..(max_num_numa_nodes_ - 1) :
                    Occurrences(c, n) = IF n = core_to_numa_node_[c + 1] THEN 1 ELSE 0
              /\ (env.numa.dir /\ env.numa.cpu_node[c] = 0 - 1)
                    => core_to_numa_node_[c + 1] = 0
        /\ \A n \in 1..Len(numa_node_to_cores_) :
              \A i \in 1..Len(numa_node_to_cores_[n]) :
                  numa_node_to_cores_[n][i] \in 0..(max_num_cores_ - 1)
        /\ ~env.numa.dir =>
              /\ max_num_numa_nodes_ = 1
              /\ numa_node_to_cores_ = <<[i \in 1..max_num_cores_ |-> i - 1]>>
        /\ (env.numa.dir /\ env.numa.nodes = {}) => max_num_numa_nodes_ = 1

\* two nodes, a core on node 1 and a core that no node claims
C3_Witness ==
    /\ Initialized /\ env.numa.dir /\ env.numa.nodes = {0, 1}
    /\ max_num_cores_ = MaxCores
    /\ env.numa.cpu_node[0] = 1 /\ env.numa.cpu_node[1] = 0 - 1
    /\ numa_node_to_cores_[2] # <<>>

\* C10: get_current_core() returns a core below max_num_cores_: 0 when the
\* query is unsupported or the OS id is negative, the OS id when it is a
\* known core, the OS id modulo max_num_cores_ when it is past them.
C10_CurrentCoreInRange ==
    ret.op = "get_current_core" =>
        /\ ret.max = max_num_cores_
        /\ ret.core \in 0..(ret.max - 1)
        /\ (~env.have_sched_getcpu \/ ret.cpu < 0) => ret.core = 0
        /\ (env.have_sched_getcpu /\ ret.cpu \in 0..(ret.max - 1)) => ret.core = ret.cpu
        /\ (env.have_sched_getcpu /\ ret.cpu >= ret.max) => ret.core = ret.cpu % ret.max

\* the OS names a core past the known ones
C10_Witness ==
    /\ ret.op = "get_current_core" /\ Initialized /\ env.have_sched_getcpu
    /\ ret.max = MaxCores /\ ret.cpu = MaxCores + 1 /\ ret.core = 1

\* a thread has left _init_num_cores_with_cgroup and not yet gone on
AfterCgroupStage == \E t \in DOMAIN pc : pc[t] = "cores"

\* floor(quota / period) when both texts are positive integers, else raw
QuotaCount(period_str, quota_str, raw) ==
    LET p == string_to_int(period_str)
        q == string_to_int(quota_str)
    IN  IF p.ok /\ q.ok /\ p.val > 0 /\ q.val > 0 THEN q.val \div p.val ELSE raw

\* the cpuset list of a text without the offline cores
ListedOnline(cpuset_str) ==
    SelectSeq(parse_cpus(cpuset_str), LAMBDA c : c \notin offline_cores_)

\* C4: in a confined process, with cfs the quota count (raw without a
\* positive quota and period) and cps the length of the cpuset list without
\* the offline cores (raw when the text has no non-whitespace character), the
\* count after the cgroup stage is max(1, min(cfs, cps)) when min(cfs, cps) is
\* below raw and raw otherwise, and it is never above raw.
C4_CountIsFlooredMinimum ==
    (AfterCgroupStage /\ env.dockerenv) =>
        LET raw == cg.raw
            cfs == QuotaCount(cg.period_str, cg.quota_str, raw)
            cps == IF HasNonSpace(cg.cpuset_str)
                   THEN Len(ListedOnline(cg.cpuset_str)) ELSE raw
        IN  /\ num_cores_ = IF Min2(cfs, cps) < raw THEN Max2(1, Min2(cfs, cps)) ELSE raw
            /\ num_cores_ <= raw

\* C4 with every read of the stage having succeeded
C4_HoldsWhenReadsSucceed ==
    (AfterCgroupStage /\ env.dockerenv /\ cg.reached) =>
        LET raw == cg.raw
            cfs == QuotaCount(cg.period_str, cg.quota_str, raw)
            cps == IF HasNonSpace(cg.cpuset_str)
                   THEN Len(ListedOnline(cg.cpuset_str)) ELSE raw
        IN  /\ num_cores_ = IF Min2(cfs, cps) < raw THEN Max2(1, Min2(cfs, cps)) ELSE raw
            /\ num_cores_ <= raw

\* the tokens of a text, as the commas cut it
CommaTokens(s) == SplitAll(s, ",")

IsNumber(tok) == tok # <<>> /\ \A i \in 1..Len(tok) : IsDigit(tok[i])

\* tok is a-b with a and b numbers and the dash at place i
IsRangeAt(tok, i) ==
    /\ tok[i] = "-"
    /\ IsNumber(SubSeq(tok, 1, i - 1))
    /\ IsNumber(SubSeq(tok, i + 1, Len(tok)))

\* what a token stands for: n, a..b ascending, nothing when it is malformed
TokenDecoding(tok) ==
    IF IsNumber(tok) THEN <<DigitsVal(tok)>>
    ELSE IF \E i \in 1..Len(tok) : IsRangeAt(tok, i)
    THEN LET i == CHOOSE j \in 1..Len(tok) : IsRangeAt(tok, j)
             a == DigitsVal(SubSeq(tok, 1, i - 1))
             b == DigitsVal(SubSeq(tok, i + 1, Len(tok)))
         IN  [k \in 1..(b - a + 1) |-> a + k - 1]
    ELSE <<>>

\* C5: parse_cpus returns the decodings of the comma-separated tokens in
\* input order: n for a number, a..b for a range with a <= b, nothing for a
\* malformed token, which leaves the ids of the other tokens alone.
C5_ParseIsTokenwiseDecoding ==
    ret.op = "parse_cpus" =>
        LET toks == CommaTokens(ret.str)
        IN  ret.ids = Flatten([i \in 1..Len(toks) |-> TokenDecoding(toks[i])])

\* C6: in a confined process under cgroup v1 or v2 a read failure disables
\* only its own source: without a readable cpuset file a readable quota and
\* period below the count still lower it to max(1, floor(quota / period)),
\* and without a readable quota or period file a readable cpuset list is
\* still recorded and still lowers the count.
C6_ReadFailureDisablesOneSource ==
    (AfterCgroupStage /\ env.dockerenv /\ env.statfs \in {"tmpfs", "cgroup2"}) =>
        /\ (/\ ~env.cpuset.ok /\ env.quota.ok /\ env.period.ok
            /\ QuotaCount(env.period.text, env.quota.text, cg.raw) < cg.raw)
              => num_cores_ = Max2(1, QuotaCount(env.period.text, env.quota.text, cg.raw))
        /\ (/\ ~(env.quota.ok /\ env.period.ok) /\ env.cpuset.ok
            /\ HasNonSpace(env.cpuset.text))
              => /\ is_cgroup_with_cpuset_
                 /\ cpuset_cores_ = ListedOnline(env.cpuset.text)
                 /\ Len(cpuset_cores_) < cg.raw => num_cores_ = Max2(1, Len(cpuset_cores_))

\* every call of init() has returned
AllReturned == Initialized /\ \A t \in DOMAIN pc : pc[t] = "idle"

\* how often core c is in the node lists
TimesListed(c) ==
    LET all == Flatten(numa_node_to_cores_)
    IN  Cardinality({i \in 1..Len(all) : all[i] = c})

\* C7: however the calls of init() interleave, the pipeline runs once: the
\* precondition of _init_numa_node_to_cores is never violated and, after all
\* calls returned, every core is in the node lists exactly once.
C7_InitRunsOnce ==
    /\ dcheck = "ok"
    /\ AllReturned => \A c \in 0..(max_num_cores_ - 1) : TimesListed(c) = 1

\* the cgroup stage left every field it owns as it found it
CgroupStageWasNoOp ==
    /\ num_cores_ = cg.raw
    /\ cpuset_cores_ = <<>>
    /\ ~is_cgroup_with_cpuset_
    /\ ~is_cgroup_with_cpu_quota_

\* C8 as amended: without the container marker the cgroup stage changes
\* nothing, whatever the cgroup files hold, and with a gflag that is not
\* positive the count after init() is the number of processor records, or 1
\* when the processor table has no record.
C8_NoMarkerNoOp ==
    /\ (AfterCgroupStage /\ ~env.dockerenv) => CgroupStageWasNoOp
    /\ (Initialized /\ ~env.dockerenv) => (cpuset_cores_ = <<>> /\ ~is_cgroup_with_cpuset_
                                            /\ ~is_cgroup_with_cpu_quota_)
    /\ (Initialized /\ ~env.dockerenv /\ env.num_cores_flag <= 0)
          => num_cores_ = Max2(1, Len(env.cpuinfo))

\* C8 as stated: ... the count after init() is the number of processor records.
C8_CountEqualsRecords ==
    /\ (AfterCgroupStage /\ ~env.dockerenv) => CgroupStageWasNoOp
    /\ (Initialized /\ ~env.dockerenv /\ env.num_cores_flag <= 0)
          => num_cores_ = Len(env.cpuinfo)

\* no marker, cgroup v1 files that would lower the count to 1
C8_Witness ==
    /\ Initialized /\ ~env.dockerenv /\ env.statfs = "tmpfs"
    /\ env.period = File(<<"1", "0", "0", "0", "0", "0", "\n">>)
    /\ env.quota = File(<<"5", "0", "0", "0", "0">>)
    /\ env.cpuset = File(<<"1">>)
    /\ env.num_cores_flag <= 0 /\ Len(env.cpuinfo) = MaxRecords
    /\ num_cores_ = MaxRecords

\* a record reports a flag when the name is one of the words of its value
Reports(values, name) == name \in Range(SplitAll(values, " "))

\* C9 as stated: after init() a flag is supported if and only if at least one
\* processor record reports it; AVX is not supported when the records list
\* only avx2 or avx512f.
C9_FlagsAreUnionOfReported ==
    Initialized =>
        \A i \in 1..Len(flag_mappings) :
            is_supported(flag_mappings[i].flag)
                <=> \E r \in 1..Len(env.cpuinfo) :
                        Reports(env.cpuinfo[r], flag_mappings[i].name)

\* name is written somewhere within values
NameWithin(values, name) ==
    \E i \in 0..(Len(values) - Len(name)) :
        \A k \in 1..Len(name) : values[i + k] = name[k]

\* C9 as amended: after init() a flag is supported if and only if the flags
\* value of at least one processor record contains its name, as a word or
\* within a longer word; avx2, avx512f and avx512bw make AVX supported.
C9_FlagsAreUnionOfContained ==
    Initialized =>
        \A i \in 1..Len(flag_mappings) :
            is_supported(flag_mappings[i].flag)
                <=> \E r \in 1..Len(env.cpuinfo) :
                        NameWithin(env.cpuinfo[r], flag_mappings[i].name)

\* two records with different flags, avx only within avx2
C9_Witness ==
    /\ Initialized /\ env.cpuinfo = <<FlagsAvx2, FlagsPlain>>
    /\ hardware_flags_ = {"SSE4_2", "POPCNT", "AVX", "AVX2"}

\* the core ids written in the cpuset text init() read
CpusetTextCores ==
    {parse_cpus(cg.cpuset_str)[i] : i \in 1..Len(parse_cpus(cg.cpuset_str))}

\* C11: when init() recorded the cpuset source as active, every core id
\* get_core_ids() returns is one of the core ids parsed from the cpuset text,
\* also when every core of the cpuset is offline and when every token of the
\* text is malformed.
C11_CoreIdsWithinCpuset ==
    (ret.op = "get_core_ids" /\ Initialized /\ is_cgroup_with_cpuset_) =>
        \A i \in 1..Len(ret.ids) : ret.ids[i] \in CpusetTextCores

\* the same for a cpuset of which a core is left once the offline ones are
\* removed: the list returned is then the cpuset's
C11_HoldsWhenCpusetCoreOnline ==
    (/\ ret.op = "get_core_ids" /\ Initialized /\ is_cgroup_with_cpuset_
     /\ cpuset_cores_ # <<>>) =>
        \A i \in 1..Len(ret.ids) : ret.ids[i] \in CpusetTextCores

====
